---------------------------- MODULE Spec2Model ----------------------------
(***************************************************************************)
(* A model of the Zabbix adaptors of community.zabbix:                     *)
(*   plugins/modules/zabbix_maintenance.py  (maintenance windows)          *)
(*   plugins/modules/zabbix_mfa.py          (MFA methods)                  *)
(*   plugins/modules/zabbix_sla.py          (SLAs)                         *)
(* One invocation of a module is a run of its main(): the run is cut at    *)
(* every call to the remote API, so that the order of the calls, a failing *)
(* call and the state of the remote system between calls are visible.      *)
(*                                                                         *)
(* Python values: None is the empty tuple and a present value x is <<x>>   *)
(* (Some(x)); an int n is PyInt(n) and the decimal string of n is          *)
(* PyStr(n), so that 2 and "2" are different values, as they are in        *)
(* Python.  An ISO timestamp string is the tuple of its numeric fields and *)
(* the empty string is the empty tuple.                                    *)
(***************************************************************************)
EXTENDS Integers, Sequences, FiniteSets, TLC

VARIABLES
    adaptor,      \* which module main() is running: "maintenance", "mfa", "sla"
    params,       \* module.params
    check_mode,   \* module.check_mode
    api_version,  \* self._zbx_api_version, a sequence of numbers
    remote,       \* the remote system's objects of the adaptor's call
    clock,        \* the local wall clock, in ticks
    pc,           \* the position of main()
    loc,          \* main()'s local variables
    calls,        \* the remote calls of this invocation, in order
    result,       \* how the invocation ended
    remote0,      \* the remote objects when this invocation started
    prev,         \* summary of the invocation before this one
    run,          \* the number of this invocation
    fin,          \* input of a function studied on its own
    fout          \* its output

vars == <<adaptor, params, check_mode, api_version, remote, clock, pc, loc,
          calls, result, remote0, prev, run, fin, fout>>

runVars == <<adaptor, params, check_mode, api_version, remote, clock, pc, loc,
             calls, result, remote0, prev, run>>

-----------------------------------------------------------------------------
(* Python values *)

None == <<>>
Some(x) == <<x>>
IsNone(o) == Len(o) = 0
Val(o) == o[1]

PyInt(n) == [t |-> "int", v |-> n]
PyStr(n) == [t |-> "str", v |-> n]

\* str(n) of an int n
str(n) == PyStr(n)

Range(s) == {s[i] : i \in 1..Len(s)}

RECURSIVE InsertSorted(_, _, _)
\* x placed in the sorted sequence s after every element whose key is not
\* greater than its own; key is a function from the elements to numbers
InsertSorted(x, s, key) ==
    IF s = <<>> THEN <<x>>
    ELSE IF key[s[1]] <= key[x] THEN <<s[1]>> \o InsertSorted(x, Tail(s), key)
         ELSE <<x>> \o s

RECURSIVE SortBy(_, _)
\* Python's sorted(s, key=...): a stable sort, here by insertion
SortBy(s, key) ==
    IF s = <<>> THEN <<>>
    ELSE InsertSorted(s[Len(s)], SortBy(SubSeq(s, 1, Len(s) - 1), key), key)

\* sorted(ids): the ids are the decimal strings of one-digit numbers, whose
\* string order is the order of the numbers
sorted(ids) == SortBy(ids, [x \in Range(ids) |-> x])

\* the tag names of the model, in Python's string order
TagNames == <<"app", "env">>
TagRank(name) == CHOOSE i \in 1..Len(TagNames) : TagNames[i] = name
\* sorted(tags, key=lambda k: k["tag"])
sortedByTag(tags) == SortBy(tags, [x \in Range(tags) |-> TagRank(x.tag)])

RECURSIVE VersionLess(_, _)
\* LooseVersion(a) < LooseVersion(b): the component lists compared as lists
VersionLess(a, b) ==
    IF b = <<>> THEN FALSE
    ELSE IF a = <<>> THEN TRUE
    ELSE IF a[1] # b[1] THEN a[1] < b[1]
    ELSE VersionLess(Tail(a), Tail(b))

-----------------------------------------------------------------------------
(* Local time.  A naive datetime is [wall, us]: the seconds its calendar   *)
(* fields count from 1970-01-01 00:00:00 read as a calendar, and its       *)
(* microseconds.                                                           *)

\* days from 1970-01-01 to y-m-d in the proleptic Gregorian calendar
DaysFromCivil(y, m, d) ==
    LET yy  == IF m <= 2 THEN y - 1 ELSE y
        era == yy \div 400
        yoe == yy - era * 400
        mp  == IF m > 2 THEN m - 3 ELSE m + 9
        doy == (153 * mp + 2) \div 5 + d - 1
        doe == yoe * 365 + yoe \div 4 - yoe \div 100 + doy
    IN  era * 146097 + doe - 719468

\* datetime.datetime.fromisoformat("YYYY-MM-DD HH:MM[:SS]")
fromisoformat(iso) ==
    [wall |-> DaysFromCivil(iso[1], iso[2], iso[3]) * 86400
              + iso[4] * 3600 + iso[5] * 60
              + (IF Len(iso) >= 6 THEN iso[6] ELSE 0),
     us   |-> 0]

\* dt.replace(second=0): the microseconds stay
replaceSecond0(dt) == [wall |-> dt.wall - (dt.wall % 60), us |-> dt.us]

\* The zone of the host: std seconds east of UTC, and dst more from the
\* wall-clock instant dstAt on (dst = 0: a zone without daylight saving).
UtcOffset(tz, wall) ==
    tz.std + (IF tz.dst # 0 /\ wall >= tz.dstAt THEN tz.dst ELSE 0)

\* int(time.mktime(dt.timetuple())): the epoch seconds of the local time;
\* timetuple() drops the microseconds
mktime(dt, tz) == dt.wall - UtcOffset(tz, dt.wall)

\* int((a - b).total_seconds()): a timedelta is whole seconds ds and
\* microseconds dus with |dus| < 10^6, and int() truncates toward zero
totalSecondsInt(a, b) ==
    LET ds  == a.wall - b.wall
        dus == a.us - b.us
    IN  IF ds > 0 /\ dus < 0 THEN ds - 1
        ELSE IF ds < 0 /\ dus > 0 THEN ds + 1
        ELSE ds

\* a start that is read from the clock even when active_since is given
NowOfClock(active_since, clockNow) == replaceSecond0(clockNow)

\* main(), lines 644-648
NowOf(active_since, clockNow) ==
    IF active_since # <<>> THEN fromisoformat(active_since)
    ELSE replaceSecond0(clockNow)

\* main(), line 649
StartTimeOf(now, tz) == mktime(now, tz)

\* main(), lines 650-654
PeriodOf(active_till, now, minutes) ==
    IF active_till # <<>> THEN totalSecondsInt(fromisoformat(active_till), now)
    ELSE 60 * minutes

-----------------------------------------------------------------------------
(* zabbix_maintenance.py: payloads, lookups, diff *)

\* LooseVersion("6.2")
V62 == <<6, 2>>

\* a dict without some of its keys (del d[k])
Without(d, keys) == [k \in DOMAIN d \ keys |-> d[k]]

\* the parameters of create_maintenance() without the test of the version
CreateParametersNewShape(version, group_ids, host_ids, start_time, maintenance_type, period, name, desc, tags) ==
    LET end_time == start_time + period
        p0 == [groups |-> [i \in 1..Len(group_ids) |-> [groupid |-> group_ids[i]]],
               hosts |-> [i \in 1..Len(host_ids) |-> [hostid |-> host_ids[i]]],
               name |-> name,
               maintenance_type |-> PyInt(maintenance_type),
               active_since |-> str(start_time),
               active_till |-> str(end_time),
               description |-> desc,
               timeperiods |-> << [timeperiod_type |-> PyStr(0),
                                   start_date |-> str(start_time),
                                   period |-> str(period)] >>]
    IN  IF ~IsNone(tags) THEN p0 @@ [tags |-> Val(tags)] ELSE p0

\* create_maintenance(), lines 335-358: the parameters sent
CreateParameters(version, group_ids, host_ids, start_time, maintenance_type, period, name, desc, tags) ==
    LET end_time == start_time + period
        p0 == [groups |-> [i \in 1..Len(group_ids) |-> [groupid |-> group_ids[i]]],
               hosts |-> [i \in 1..Len(host_ids) |-> [hostid |-> host_ids[i]]],
               name |-> name,
               maintenance_type |-> PyInt(maintenance_type),
               active_since |-> str(start_time),
               active_till |-> str(end_time),
               description |-> desc,
               timeperiods |-> << [timeperiod_type |-> PyStr(0),
                                   start_date |-> str(start_time),
                                   period |-> str(period)] >>]
        p1 == IF VersionLess(version, V62)
              THEN Without(p0, {"groups", "hosts"})
                   @@ [groupids |-> group_ids, hostids |-> host_ids]
              ELSE p0
    IN  IF ~IsNone(tags) THEN p1 @@ [tags |-> Val(tags)] ELSE p1

\* the parameters of update_maintenance() with the end of the window given
\* as the period
UpdateParametersPeriodEnd(version, maintenance_id, group_ids, host_ids, start_time, maintenance_type, period, desc, tags) ==
    LET end_time == start_time + period
        p0 == [maintenanceid |-> maintenance_id,
               groups |-> [i \in 1..Len(group_ids) |-> [groupid |-> group_ids[i]]],
               hosts |-> [i \in 1..Len(host_ids) |-> [hostid |-> host_ids[i]]],
               maintenance_type |-> PyInt(maintenance_type),
               active_since |-> str(start_time),
               active_till |-> str(end_time),
               description |-> desc,
               timeperiods |-> << [timeperiod_type |-> PyStr(0),
                                   start_date |-> str(start_time),
                                   period |-> str(end_time)] >>]
        p1 == IF VersionLess(version, V62)
              THEN Without(p0, {"groups", "hosts"})
                   @@ [groupids |-> group_ids, hostids |-> host_ids]
              ELSE p0
    IN  IF ~IsNone(tags) THEN p1 @@ [tags |-> Val(tags)] ELSE p1

\* update_maintenance(), lines 373-396: the parameters sent
UpdateParameters(version, maintenance_id, group_ids, host_ids, start_time, maintenance_type, period, desc, tags) ==
    LET end_time == start_time + period
        p0 == [maintenanceid |-> maintenance_id,
               groups |-> [i \in 1..Len(group_ids) |-> [groupid |-> group_ids[i]]],
               hosts |-> [i \in 1..Len(host_ids) |-> [hostid |-> host_ids[i]]],
               maintenance_type |-> PyInt(maintenance_type),
               active_since |-> str(start_time),
               active_till |-> str(end_time),
               description |-> desc,
               timeperiods |-> << [timeperiod_type |-> PyStr(0),
                                   start_date |-> str(start_time),
                                   period |-> str(period)] >>]
        p1 == IF VersionLess(version, V62)
              THEN Without(p0, {"groups", "hosts"})
                   @@ [groupids |-> group_ids, hostids |-> host_ids]
              ELSE p0
    IN  IF ~IsNone(tags) THEN p1 @@ [tags |-> Val(tags)] ELSE p1

\* check_maint_properties() with the description comparison left out
check_maint_properties_nodesc(maintenance, group_ids, host_ids, maintenance_type, start_time, period, desc, tags) ==
    IF sorted(group_ids) # sorted(maintenance.groupids) THEN TRUE
    ELSE IF sorted(host_ids) # sorted(maintenance.hostids) THEN TRUE
    ELSE IF str(maintenance_type) # maintenance.maintenance_type THEN TRUE
    ELSE IF str(start_time) # maintenance.active_since THEN TRUE
    ELSE IF str(start_time + period) # maintenance.active_till THEN TRUE
    ELSE IF ~IsNone(tags) /\ "tags" \in DOMAIN maintenance
            /\ sortedByTag(Val(tags)) # sortedByTag(maintenance.tags) THEN TRUE
    ELSE FALSE

\* a diff that takes tags that are not supplied as an empty list
check_maint_properties_notags_empty(maintenance, group_ids, host_ids, maintenance_type, start_time, period, desc, tags) ==
    IF sorted(group_ids) # sorted(maintenance.groupids) THEN TRUE
    ELSE IF sorted(host_ids) # sorted(maintenance.hostids) THEN TRUE
    ELSE IF str(maintenance_type) # maintenance.maintenance_type THEN TRUE
    ELSE IF str(start_time) # maintenance.active_since THEN TRUE
    ELSE IF str(start_time + period) # maintenance.active_till THEN TRUE
    ELSE IF desc # maintenance.description THEN TRUE
    ELSE IF "tags" \in DOMAIN maintenance
            /\ sortedByTag(IF IsNone(tags) THEN <<>> ELSE Val(tags)) # sortedByTag(maintenance.tags) THEN TRUE
    ELSE FALSE

\* check_maint_properties(), lines 465-492.  It returns True, or falls off
\* its end and returns None, which the caller's "if" takes as false: FALSE
\* here.  start_time and period are ints, so int() leaves them as they are.
check_maint_properties(maintenance, group_ids, host_ids, maintenance_type, start_time, period, desc, tags) ==
    IF sorted(group_ids) # sorted(maintenance.groupids) THEN TRUE
    ELSE IF sorted(host_ids) # sorted(maintenance.hostids) THEN TRUE
    ELSE IF str(maintenance_type) # maintenance.maintenance_type THEN TRUE
    ELSE IF str(start_time) # maintenance.active_since THEN TRUE
    ELSE IF str(start_time + period) # maintenance.active_till THEN TRUE
    ELSE IF desc # maintenance.description THEN TRUE
    ELSE IF ~IsNone(tags) /\ "tags" \in DOMAIN maintenance
            /\ sortedByTag(Val(tags)) # sortedByTag(maintenance.tags) THEN TRUE
    ELSE FALSE

-----------------------------------------------------------------------------
(* The window computation on its own: main(), lines 644-654, and the       *)
(* parameters create_maintenance() builds from it.                         *)

T0900 == <<1979, 9, 19, 9, 0>>
T1700 == <<1979, 9, 19, 17, 0>>
T0900s == <<1979, 9, 19, 9, 0, 30>>
\* either side of a daylight-saving change at 02:00 on 1980-04-06
T0100 == <<1980, 4, 6, 1, 0>>
T0400 == <<1980, 4, 6, 4, 0>>
IsoTimes == {<<>>, T0900, T1700, T0900s, T0100, T0400}

ZoneUTC == [std |-> 0, dst |-> 0, dstAt |-> 0]
ZoneEast == [std |-> 32400, dst |-> 0, dstAt |-> 0]
ZoneWest == [std |-> 0 - 18000, dst |-> 0, dstAt |-> 0]
ZoneDst == [std |-> 3600, dst |-> 3600,
            dstAt |-> DaysFromCivil(1980, 4, 6) * 86400 + 2 * 3600]
Zones == {ZoneUTC, ZoneEast, ZoneWest, ZoneDst}

\* how many times the clock is seen to advance
MaxTick == 1
\* datetime.datetime.now() at tick t: 08:30:15 on 1979-09-19 and a minute
\* more with every tick
NowAt(t, us) ==
    [wall |-> DaysFromCivil(1979, 9, 19) * 86400 + 8 * 3600 + 30 * 60 + 15 + 60 * t,
     us |-> us]
ClockReadings == {NowAt(t, us) : t \in 0..MaxTick, us \in {0, 500000}}

Minutes == {10, 90}

\* main(), lines 644-654, then create_maintenance(), lines 335-351
Window(in) ==
    LET now == NowOf(in.active_since, in.clockNow)
        start_time == StartTimeOf(now, in.tz)
        period == PeriodOf(in.active_till, now, in.minutes)
    IN  [start_time |-> start_time,
         period |-> period,
         parameters |-> CreateParameters(V62, <<>>, <<1>>, start_time, 0,
                                         period, "m", "d", None)]

idleRun ==
    /\ adaptor = "none" /\ params = None /\ check_mode = FALSE
    /\ api_version = V62 /\ remote = <<>> /\ clock = 0 /\ pc = "none"
    /\ loc = None /\ calls = <<>> /\ result = None /\ remote0 = <<>>
    /\ prev = None /\ run = 0

InitTime ==
    /\ idleRun
    /\ fin \in [active_since : IsoTimes, active_till : IsoTimes,
                 minutes : Minutes, tz : Zones, clockNow : ClockReadings]
    /\ fout = None

WindowStep ==
    /\ fout = None
    /\ fout' = Some(Window(fin))
    /\ UNCHANGED <<fin, runVars>>

NextTime == WindowStep

SpecTime == InitTime /\ [][NextTime]_vars

\* the epoch seconds of a local ISO timestamp in the host's zone
EpochOfLocal(iso, tz) == mktime(fromisoformat(iso), tz)

\* C6: for explicit bounds, 09:00 to 17:00 on 1979-09-19 gives a period of
\* exactly 28800 seconds, the emitted active_since is the epoch seconds of
\* the local start timestamp and the emitted active_till is the epoch
\* seconds of the local end timestamp.
C6_WindowIsEpochOfBounds ==
    (~IsNone(fout) /\ fin.active_since # <<>> /\ fin.active_till # <<>>) =>
        /\ (fin.active_since = T0900 /\ fin.active_till = T1700)
               => Val(fout).period = 28800
        /\ Val(fout).parameters.active_since
               = PyStr(EpochOfLocal(fin.active_since, fin.tz))
        /\ Val(fout).parameters.active_till
               = PyStr(EpochOfLocal(fin.active_till, fin.tz))

\* the same in the zones without a daylight-saving change (for comparison)
C6_HoldsWithoutDst ==
    fin.tz.dst = 0 => C6_WindowIsEpochOfBounds

-----------------------------------------------------------------------------
(* The diff on its own: check_maint_properties() applied to a desired      *)
(* record and a current object as get_maintenance() returns it.            *)

\* a tag as the module's argument parsing gives it (operator: an int) and
\* as the remote API returns it (operator: a numeric string)
TagArg(name, value) == [tag |-> name, operator |-> PyInt(2), value |-> value]
TagGot(name, value) == [tag |-> name, operator |-> PyStr(2), value |-> value]

DiffTagsDesired ==
    {None, Some(<<>>), Some(<<TagArg("app", "x")>>),
     Some(<<TagArg("app", "x"), TagArg("env", "y")>>),
     Some(<<TagArg("env", "y"), TagArg("app", "x")>>),
     Some(<<TagArg("app", "x"), TagArg("app", "y")>>)}
DiffTagsCurrent ==
    {<<>>, <<TagGot("app", "x")>>, <<TagGot("env", "y"), TagGot("app", "x")>>,
     <<TagGot("app", "y"), TagGot("app", "x")>>}

DiffStart == {306576000, 306580800}
DiffPeriod == {600, 5400}
DiffDesc == {"Created by Ansible", "patching"}

DiffCurrent ==
    [maintenanceid : {7},
     groupids : {<<1>>, <<1, 2>>},
     hostids : {<<3>>},
     maintenance_type : {PyStr(0), PyStr(1)},
     active_since : {PyStr(t) : t \in DiffStart},
     active_till : {PyStr(306576000 + 5400), PyStr(306580800 + 600)},
     description : DiffDesc,
     tags : DiffTagsCurrent]

InitDiff ==
    /\ idleRun
    /\ fin \in [maintenance : DiffCurrent,
                 group_ids : {<<1>>, <<1, 2>>, <<2, 1>>},
                 host_ids : {<<>>, <<3>>},
                 maintenance_type : {0, 1},
                 start_time : DiffStart,
                 period : DiffPeriod,
                 desc : DiffDesc,
                 tags : DiffTagsDesired]
    /\ fout = None

DiffStep ==
    /\ fout = None
    /\ fout' = Some(check_maint_properties(fin.maintenance, fin.group_ids,
                        fin.host_ids, fin.maintenance_type, fin.start_time,
                        fin.period, fin.desc, fin.tags))
    /\ UNCHANGED <<fin, runVars>>

NextDiff == DiffStep

SpecDiff == InitDiff /\ [][NextDiff]_vars

\* the fields of the desired record that differ from the current object,
\* the tags aside
OtherFieldDiffers ==
    \/ sorted(fin.group_ids) # sorted(fin.maintenance.groupids)
    \/ sorted(fin.host_ids) # sorted(fin.maintenance.hostids)
    \/ PyStr(fin.maintenance_type) # fin.maintenance.maintenance_type
    \/ PyStr(fin.start_time) # fin.maintenance.active_since
    \/ PyStr(fin.start_time + fin.period) # fin.maintenance.active_till
    \/ fin.desc # fin.maintenance.description

\* the desired record's tags differ from the current object's; a desired
\* record without tags differs from an object that has some
TagsDiffer ==
    IF IsNone(fin.tags) THEN fin.maintenance.tags # <<>>
    ELSE sortedByTag(Val(fin.tags)) # sortedByTag(fin.maintenance.tags)

-----------------------------------------------------------------------------
(* The remote system, as the maintenance module sees it.  It stores what   *)
(* is written and returns numbers as numeric strings.                      *)

\* host.get and hostgroup.get, filtered by name: the objects found
HostDir(name) ==
    CASE name = "h1" -> <<[hostid |-> 1]>>
      [] name = "h2" -> <<[hostid |-> 2]>>
      [] name = "h3" -> <<[hostid |-> 3]>>
      [] OTHER -> <<>>
GroupDir(name) ==
    CASE name = "g1" -> <<[groupid |-> 1]>>
      [] OTHER -> <<>>

\* the ids of a list of {"groupid": id} or {"hostid": id} records
GroupIdsOf(recs) == [i \in 1..Len(recs) |-> recs[i].groupid]
HostIdsOf(recs) == [i \in 1..Len(recs) |-> recs[i].hostid]

\* the tags as the remote system returns them
StoredTags(tags) ==
    [i \in 1..Len(tags) |-> [tag |-> tags[i].tag,
                             operator |-> PyStr(tags[i].operator.v),
                             value |-> tags[i].value]]

\* the groups and hosts of a written payload, in either shape
PayloadGroupIds(p) ==
    IF "groups" \in DOMAIN p THEN GroupIdsOf(p.groups) ELSE p.groupids
PayloadHostIds(p) ==
    IF "hosts" \in DOMAIN p THEN HostIdsOf(p.hosts) ELSE p.hostids

\* an id the remote system has not given yet
NewId(objs) ==
    IF objs = <<>> THEN 7
    ELSE 1 + CHOOSE n \in {objs[i].maintenanceid : i \in 1..Len(objs)} :
                 \A i \in 1..Len(objs) : objs[i].maintenanceid <= n

\* maintenance.create(parameters), line 359
RemoteMaintenanceCreate(objs, p) ==
    Append(objs, [maintenanceid |-> NewId(objs),
                  name |-> p.name,
                  groupids |-> PayloadGroupIds(p),
                  hostids |-> PayloadHostIds(p),
                  maintenance_type |-> PyStr(p.maintenance_type.v),
                  active_since |-> p.active_since,
                  active_till |-> p.active_till,
                  description |-> p.description,
                  tags |-> IF "tags" \in DOMAIN p THEN StoredTags(p.tags) ELSE <<>>])

\* maintenance.update(parameters), line 397
RemoteMaintenanceUpdate(objs, p) ==
    [i \in 1..Len(objs) |->
        IF objs[i].maintenanceid # p.maintenanceid THEN objs[i]
        ELSE [maintenanceid |-> objs[i].maintenanceid,
              name |-> objs[i].name,
              groupids |-> PayloadGroupIds(p),
              hostids |-> PayloadHostIds(p),
              maintenance_type |-> PyStr(p.maintenance_type.v),
              active_since |-> p.active_since,
              active_till |-> p.active_till,
              description |-> p.description,
              tags |-> IF "tags" \in DOMAIN p THEN StoredTags(p.tags)
                       ELSE objs[i].tags]]

\* maintenance.delete([id]), line 434
RemoteMaintenanceDelete(objs, ids) ==
    SelectSeq(objs, LAMBDA o : o.maintenanceid \notin Range(ids))

\* maintenance.get(parameters), lines 401-410: the objects of that name, with
\* their hosts, tags and host groups (under "groups" before 6.2)
RemoteMaintenanceGet(objs, name, version) ==
    LET found == SelectSeq(objs, LAMBDA o : o.name = name)
        Reply(o) ==
            LET base == [maintenanceid |-> o.maintenanceid,
                         name |-> o.name,
                         maintenance_type |-> o.maintenance_type,
                         active_since |-> o.active_since,
                         active_till |-> o.active_till,
                         description |-> o.description,
                         tags |-> o.tags,
                         hosts |-> [i \in 1..Len(o.hostids) |-> [hostid |-> o.hostids[i]]]]
                grps == [i \in 1..Len(o.groupids) |-> [groupid |-> o.groupids[i]]]
            IN  IF VersionLess(version, V62) THEN base @@ [groups |-> grps]
                ELSE base @@ [hostgroups |-> grps]
    IN  [i \in 1..Len(found) |-> Reply(found[i])]

\* get_maintenance(), lines 412-431: the first object of the reply, with
\* its groupids and hostids, or None
get_maintenance(reply, version) ==
    IF reply = <<>> THEN None
    ELSE LET m == reply[1]
             g0 == IF "hostgroups" \in DOMAIN m THEN GroupIdsOf(m.hostgroups) ELSE <<>>
             g  == IF VersionLess(version, V62)
                   THEN (IF "groups" \in DOMAIN m THEN GroupIdsOf(m.groups) ELSE <<>>)
                   ELSE g0
             h  == IF "hosts" \in DOMAIN m THEN HostIdsOf(m.hosts) ELSE <<>>
         IN  Some([groupids |-> g, hostids |-> h] @@ m)

-----------------------------------------------------------------------------
(* One invocation after another of a module's main() *)

\* how many invocations follow one another
MaxRuns == 2

\* the zone of the host and the microseconds of its clock readings
HostZone == ZoneDst
ClockMicros == 500000

Result(kind, changed) == [kind |-> kind, changed |-> changed]
NoResult == Result("none", FALSE)

Call(op, arg, ok) == [op |-> op, arg |-> arg, ok |-> ok]

WriteOps == {"maintenance.create", "maintenance.update", "maintenance.delete",
             "mfa.create", "mfa.update", "mfa.delete",
             "sla.create", "sla.update", "sla.delete"}
Writes(cs) == SelectSeq(cs, LAMBDA c : c.op \in WriteOps)

\* "not x" of None or of a list
NotTruthy(o) == IF IsNone(o) THEN TRUE ELSE Val(o) = <<>>

\* list(set(xs)): the elements of xs once each, in an order the set gives
ListsOfSet(S) == {q \in [1..Cardinality(S) -> S] : Range(q) = S}

\* main()'s locals before it has run
loc0 == [maintenance_type |-> 0, zabbix_host |-> "name", changed |-> FALSE,
         start_time |-> 0, period |-> 0, group_ids |-> <<>>, host_ids |-> <<>>,
         i |-> 1, maintenance |-> None, mfa |-> None, slas |-> <<>>]

\* the invocation ends: exit_json, fail_json or an exception nobody catches
Finish(res) ==
    /\ result' = res
    /\ pc' = "done"

\* tags let through whatever collect_data is
TagsWithoutDataNever(collect_data, tags) == FALSE

\* main(), lines 622-626: tags given although no data is collected
TagsWithoutData(collect_data, tags) == ~collect_data /\ ~IsNone(tags)

\* main(), lines 622-625: the maintenance type, 0 with data collection and 1
\* without
MaintenanceTypeOf(collect_data) == IF collect_data THEN 0 ELSE 1

\* a run that asks for no host and no group
NoHostGivenNever(host_names, host_groups) == FALSE

\* main(), line 639: "if not host_names and not host_groups"
NoHostGiven(host_names, host_groups) == NotTruthy(host_names) /\ NotTruthy(host_groups)

\* a check of the exclusion that counts every task with timeperiods
ArgumentsRejectedAny(p) == ~IsNone(p.timeperiods)

\* AnsibleModule(), lines 595-603: timeperiods and minutes exclude each
\* other among the parameters the task supplies; one of the two is always
\* there, since minutes has a default (line 512)
ArgumentsRejected(p) == p.minutes_supplied /\ ~IsNone(p.timeperiods)

\* main(), lines 605-654: the checks of the parameters and the window
MaintBegin ==
    /\ adaptor = "maintenance" /\ pc = "start"
    /\ LET maintenance_type == MaintenanceTypeOf(params.collect_data)
           zabbix_host == IF params.visible_name THEN "name" ELSE "host"
           now == NowOf(params.active_since, NowAt(clock, ClockMicros))
       IN  IF ArgumentsRejected(params)
           THEN Finish(Result("fail", FALSE)) /\ UNCHANGED loc
           ELSE IF TagsWithoutData(params.collect_data, params.tags)
           THEN Finish(Result("fail", FALSE)) /\ UNCHANGED loc
           ELSE IF params.state = "present"
           THEN IF NoHostGiven(params.host_names, params.host_groups)
                THEN Finish(Result("fail", FALSE)) /\ UNCHANGED loc
                ELSE /\ loc' = [loc EXCEPT !.maintenance_type = maintenance_type,
                                           !.zabbix_host = zabbix_host,
                                           !.changed = FALSE,
                                           !.start_time = StartTimeOf(now, HostZone),
                                           !.period = PeriodOf(params.active_till, now,
                                                               params.minutes)]
                     /\ pc' = "groups"
                     /\ UNCHANGED result
           ELSE /\ loc' = [loc EXCEPT !.maintenance_type = maintenance_type,
                                      !.zabbix_host = zabbix_host,
                                      !.changed = FALSE]
                /\ pc' = "fetch"
                /\ UNCHANGED result
    /\ UNCHANGED <<adaptor, params, check_mode, api_version, remote, clock,
                   calls, remote0, prev, run, fin, fout>>

\* get_group_ids(), lines 444-447: one turn of the loop on the reply res;
\* rc 1 is the return of line 445
GroupLookupResult(group_ids, res) ==
    IF res = <<>> THEN [rc |-> 1, ids |-> group_ids]
    ELSE [rc |-> 0, ids |-> Append(group_ids, res[1].groupid)]

\* a lookup that passes over a name it does not find
HostLookupResultSkip(host_ids, res) ==
    IF res = <<>> THEN [rc |-> 0, ids |-> host_ids]
    ELSE [rc |-> 0, ids |-> Append(host_ids, res[1].hostid)]

\* get_host_ids(), lines 458-461
HostLookupResult(host_ids, res) ==
    IF res = <<>> THEN [rc |-> 1, ids |-> host_ids]
    ELSE [rc |-> 0, ids |-> Append(host_ids, res[1].hostid)]

\* main(), lines 656-661, and get_group_ids(), lines 437-449: one
\* hostgroup.get per step
MaintGroupLookup ==
    /\ adaptor = "maintenance" /\ pc = "groups"
    /\ \/ /\ NotTruthy(params.host_groups)
          /\ loc' = [loc EXCEPT !.group_ids = <<>>, !.i = 1]
          /\ pc' = "hosts"
          /\ UNCHANGED <<calls, result>>
       \/ /\ ~NotTruthy(params.host_groups)
          /\ calls' = Append(calls, Call("hostgroup.get", Val(params.host_groups)[loc.i], FALSE))
          /\ Finish(Result("raise", FALSE))
          /\ UNCHANGED loc
       \/ /\ ~NotTruthy(params.host_groups)
          /\ LET group == Val(params.host_groups)[loc.i]
                 r == GroupLookupResult(loc.group_ids, GroupDir(group))
                 last == loc.i = Len(Val(params.host_groups))
             IN  /\ calls' = Append(calls, Call("hostgroup.get", group, TRUE))
                 /\ IF r.rc # 0
                    THEN Finish(Result("fail", FALSE)) /\ UNCHANGED loc
                    ELSE /\ loc' = [loc EXCEPT !.group_ids = r.ids,
                                               !.i = IF last THEN 1 ELSE loc.i + 1]
                         /\ pc' = IF last THEN "hosts" ELSE "groups"
                         /\ UNCHANGED result
    /\ UNCHANGED <<adaptor, params, check_mode, api_version, remote, clock,
                   remote0, prev, run, fin, fout>>

\* main(), lines 663-668, and get_host_ids(), lines 451-463: one host.get
\* per step
MaintHostLookup ==
    /\ adaptor = "maintenance" /\ pc = "hosts"
    /\ \/ /\ NotTruthy(params.host_names)
          /\ loc' = [loc EXCEPT !.host_ids = <<>>, !.i = 1]
          /\ pc' = "fetch"
          /\ UNCHANGED <<calls, result>>
       \/ /\ ~NotTruthy(params.host_names)
          /\ calls' = Append(calls, Call("host.get", Val(params.host_names)[loc.i], FALSE))
          /\ Finish(Result("raise", FALSE))
          /\ UNCHANGED loc
       \/ /\ ~NotTruthy(params.host_names)
          /\ LET host == Val(params.host_names)[loc.i]
                 r == HostLookupResult(loc.host_ids, HostDir(host))
                 last == loc.i = Len(Val(params.host_names))
             IN  /\ calls' = Append(calls, Call("host.get", host, TRUE))
                 /\ IF r.rc # 0
                    THEN Finish(Result("fail", FALSE)) /\ UNCHANGED loc
                    ELSE /\ loc' = [loc EXCEPT !.host_ids = r.ids,
                                               !.i = IF last THEN 1 ELSE loc.i + 1]
                         /\ pc' = IF last THEN "fetch" ELSE "hosts"
                         /\ UNCHANGED result
    /\ UNCHANGED <<adaptor, params, check_mode, api_version, remote, clock,
                   remote0, prev, run, fin, fout>>

\* main(), lines 670-674 and 730-734: get_maintenance(name)
MaintFetch ==
    /\ adaptor = "maintenance" /\ pc = "fetch"
    /\ \/ /\ calls' = Append(calls, Call("maintenance.get", params.name, FALSE))
          /\ Finish(Result("raise", FALSE))
          /\ UNCHANGED loc
       \/ /\ calls' = Append(calls, Call("maintenance.get", params.name, TRUE))
          /\ loc' = [loc EXCEPT !.maintenance =
                        get_maintenance(RemoteMaintenanceGet(remote, params.name,
                                                             api_version),
                                        api_version)]
          /\ pc' = IF params.state = "present" THEN "update" ELSE "delete"
          /\ UNCHANGED result
    /\ UNCHANGED <<adaptor, params, check_mode, api_version, remote, clock,
                   remote0, prev, run, fin, fout>>

\* a run that ignores module.check_mode
CheckModeIgnored == FALSE

\* module.check_mode, lines 691, 710 and 737
CheckMode == check_mode

\* a check-mode branch that leaves changed as it is
DryRunChangedNot == FALSE

\* main(), lines 692, 711 and 738: "changed = True" under check_mode
DryRunChanged == TRUE

\* A write that came back with rc == 0 sets changed (lines 704-705, 723-724,
\* 743-744); the first definition is the variant that leaves it unset.
ChangedAfterWriteNot == FALSE

ChangedAfterWrite == TRUE

\* append ignored
AppendedIdsNot(ids, current) == Range(ids)

\* main(), lines 678-679: set(ids + maintenance[...]) when append is asked
AppendedIds(ids, current) == Range(ids \o current)

\* a test that takes the maintenance as missing whatever was fetched
NotMaintenanceAlways(m) == TRUE

\* main(), line 709: "if not maintenance"
NotMaintenance(m) == IsNone(m)

\* an id worked out from the one that was fetched
UpdateIdNext(m) == m.maintenanceid + 1

\* main(), line 695: the id given to update_maintenance()
UpdateId(m) == m.maintenanceid

\* the host ids given in place of the maintenance id
DeleteArgHosts(m) == m.hostids

\* main(), line 741: the id given to delete_maintenance()
DeleteArg(m) == <<m.maintenanceid>>

\* main(), lines 676-707: the update of a maintenance that exists
MaintUpdate ==
    /\ adaptor = "maintenance" /\ pc = "update"
    /\ \/ /\ IsNone(loc.maintenance)
          /\ pc' = "create"
          /\ UNCHANGED <<loc, calls, remote, result>>
       \/ /\ ~IsNone(loc.maintenance)
          /\ \E gids \in (IF params.append
                          THEN ListsOfSet(AppendedIds(loc.group_ids,
                                                      Val(loc.maintenance).groupids))
                          ELSE {loc.group_ids}),
                hids \in (IF params.append
                          THEN ListsOfSet(AppendedIds(loc.host_ids,
                                                      Val(loc.maintenance).hostids))
                          ELSE {loc.host_ids}) :
              LET m == Val(loc.maintenance)
                  differs == check_maint_properties(m, gids, hids,
                                 loc.maintenance_type, loc.start_time, loc.period,
                                 params.desc, params.tags)
                  p == UpdateParameters(api_version, UpdateId(m), gids, hids,
                                        loc.start_time, loc.maintenance_type,
                                        loc.period, params.desc, params.tags)
              IN  \/ /\ ~differs
                     /\ loc' = [loc EXCEPT !.group_ids = gids, !.host_ids = hids]
                     /\ pc' = "create"
                     /\ UNCHANGED <<calls, remote, result>>
                  \/ /\ differs /\ CheckMode
                     /\ loc' = [loc EXCEPT !.group_ids = gids, !.host_ids = hids,
                                           !.changed = DryRunChanged]
                     /\ pc' = "create"
                     /\ UNCHANGED <<calls, remote, result>>
                  \/ /\ differs /\ ~CheckMode
                     /\ calls' = Append(calls, Call("maintenance.update", p, FALSE))
                     /\ loc' = [loc EXCEPT !.group_ids = gids, !.host_ids = hids]
                     /\ Finish(Result("raise", FALSE))
                     /\ UNCHANGED remote
                  \/ /\ differs /\ ~CheckMode
                     /\ calls' = Append(calls, Call("maintenance.update", p, TRUE))
                     /\ remote' = RemoteMaintenanceUpdate(remote, p)
                     /\ loc' = [loc EXCEPT !.group_ids = gids, !.host_ids = hids,
                                           !.changed = ChangedAfterWrite]
                     /\ pc' = "create"
                     /\ UNCHANGED result
    /\ UNCHANGED <<adaptor, params, check_mode, api_version, clock, remote0,
                   prev, run, fin, fout>>

\* main(), lines 709-726 and 748: the creation of a maintenance that does
\* not exist, and exit_json
MaintCreate ==
    /\ adaptor = "maintenance" /\ pc = "create"
    /\ LET p == CreateParameters(api_version, loc.group_ids, loc.host_ids,
                                 loc.start_time, loc.maintenance_type, loc.period,
                                 params.name, params.desc, params.tags)
       IN  \/ /\ ~NotMaintenance(loc.maintenance)
              /\ Finish(Result("exit", loc.changed))
              /\ UNCHANGED <<loc, calls, remote>>
           \/ /\ NotMaintenance(loc.maintenance) /\ CheckMode
              /\ loc' = [loc EXCEPT !.changed = DryRunChanged]
              /\ Finish(Result("exit", DryRunChanged))
              /\ UNCHANGED <<calls, remote>>
           \/ /\ NotMaintenance(loc.maintenance) /\ ~CheckMode
              /\ calls' = Append(calls, Call("maintenance.create", p, FALSE))
              /\ Finish(Result("raise", FALSE))
              /\ UNCHANGED <<loc, remote>>
           \/ /\ NotMaintenance(loc.maintenance) /\ ~CheckMode
              /\ calls' = Append(calls, Call("maintenance.create", p, TRUE))
              /\ remote' = RemoteMaintenanceCreate(remote, p)
              /\ loc' = [loc EXCEPT !.changed = ChangedAfterWrite]
              /\ Finish(Result("exit", ChangedAfterWrite))
    /\ UNCHANGED <<adaptor, params, check_mode, api_version, clock, remote0,
                   prev, run, fin, fout>>

\* main(), lines 736-748: the deletion of a maintenance that exists, and
\* exit_json
MaintDelete ==
    /\ adaptor = "maintenance" /\ pc = "delete"
    /\ \/ /\ IsNone(loc.maintenance)
          /\ Finish(Result("exit", loc.changed))
          /\ UNCHANGED <<loc, calls, remote>>
       \/ /\ ~IsNone(loc.maintenance) /\ CheckMode
          /\ loc' = [loc EXCEPT !.changed = DryRunChanged]
          /\ Finish(Result("exit", DryRunChanged))
          /\ UNCHANGED <<calls, remote>>
       \/ /\ ~IsNone(loc.maintenance) /\ ~CheckMode
          /\ calls' = Append(calls, Call("maintenance.delete",
                                         DeleteArg(Val(loc.maintenance)), FALSE))
          /\ Finish(Result("raise", FALSE))
          /\ UNCHANGED <<loc, remote>>
       \/ /\ ~IsNone(loc.maintenance) /\ ~CheckMode
          /\ calls' = Append(calls, Call("maintenance.delete",
                                         DeleteArg(Val(loc.maintenance)), TRUE))
          /\ remote' = RemoteMaintenanceDelete(remote, DeleteArg(Val(loc.maintenance)))
          /\ loc' = [loc EXCEPT !.changed = ChangedAfterWrite]
          /\ Finish(Result("exit", ChangedAfterWrite))
    /\ UNCHANGED <<adaptor, params, check_mode, api_version, clock, remote0,
                   prev, run, fin, fout>>

-----------------------------------------------------------------------------
(* zabbix_mfa.py.  As shipped, line 220 (def update_mfa) lacks its colon;  *)
(* the methods are modelled statement by statement as they read.  The name *)
(* _convert_to_parameter is used at lines 206 and 222 as a global, and the *)
(* module has no such global (it is a method of MFA): evaluating it raises *)
(* NameError.                                                              *)

\* a lower minimum version
V60 == <<6, 0>>

\* LooseVersion("7.0"), line 140
V70 == <<7, 0>>

\* mfa.get with "search": {"name": q} returns the objects whose name
\* contains q
SearchHit(objname, q) == objname = q \/ (q = "m" /\ objname = "mx")
RemoteMfaGet(objs, q) == SelectSeq(objs, LAMBDA o : SearchHit(o.name, q))

\* get_mfa(), lines 153-157: the last object of the reply with that name
get_mfa(reply, mfa_name) ==
    LET exact == SelectSeq(reply, LAMBDA o : o.name = mfa_name)
    IN  IF exact = <<>> THEN None ELSE Some(exact[Len(exact)])

\* mfa.delete([id]), line 168
RemoteMfaDelete(objs, ids) == SelectSeq(objs, LAMBDA o : o.mfaid \notin Range(ids))

\* an except clause that reports the error as an unchanged success
MfaExceptSwallows == Result("exit", FALSE)

\* get_mfa(), delete_mfa(), update_mfa(): "except Exception as e:
\* self._module.fail_json(...)", lines 158-161, 172-175 and 235-238
MfaExcept == Result("fail", FALSE)

\* MFA.__init__(), lines 138-143
MfaBegin ==
    /\ adaptor = "mfa" /\ pc = "start"
    /\ IF VersionLess(api_version, V70)
       THEN Finish(Result("fail", FALSE))
       ELSE pc' = "get" /\ UNCHANGED result
    /\ UNCHANGED <<adaptor, params, check_mode, api_version, remote, clock, loc,
                   calls, remote0, prev, run, fin, fout>>

\* get_mfa(), lines 145-161, and main(), lines 315-326
MfaGet ==
    /\ adaptor = "mfa" /\ pc = "get"
    /\ \/ /\ calls' = Append(calls, Call("mfa.get", params.name, FALSE))
          /\ Finish(MfaExcept)
          /\ UNCHANGED loc
       \/ /\ calls' = Append(calls, Call("mfa.get", params.name, TRUE))
          /\ LET mfa == get_mfa(RemoteMfaGet(remote, params.name), params.name)
             IN  /\ loc' = [loc EXCEPT !.mfa = mfa]
                 /\ IF params.state = "absent" /\ IsNone(mfa)
                    THEN Finish(Result("exit", FALSE))
                    ELSE /\ pc' = IF params.state = "absent" THEN "delete"
                                  ELSE IF ~IsNone(mfa) THEN "update"
                                  ELSE "create"
                         /\ UNCHANGED result
    /\ UNCHANGED <<adaptor, params, check_mode, api_version, remote, clock,
                   remote0, prev, run, fin, fout>>

\* delete_mfa(), lines 163-175
MfaDelete ==
    /\ adaptor = "mfa" /\ pc = "delete"
    /\ LET parameter == <<Val(loc.mfa).mfaid>>
       IN  \/ /\ CheckMode
              /\ Finish(Result("exit", TRUE))
              /\ UNCHANGED <<calls, remote>>
           \/ /\ ~CheckMode
              /\ calls' = Append(calls, Call("mfa.delete", parameter, FALSE))
              /\ Finish(MfaExcept)
              /\ UNCHANGED remote
           \/ /\ ~CheckMode
              /\ calls' = Append(calls, Call("mfa.delete", parameter, TRUE))
              /\ remote' = RemoteMfaDelete(remote, parameter)
              /\ Finish(Result("exit", TRUE))
    /\ UNCHANGED <<adaptor, params, check_mode, api_version, clock, loc,
                   remote0, prev, run, fin, fout>>

\* update_mfa(), lines 220-238: line 222 raises NameError inside the try,
\* and the except of line 235 turns it into fail_json
MfaUpdate ==
    /\ adaptor = "mfa" /\ pc = "update"
    /\ Finish(MfaExcept)
    /\ UNCHANGED <<adaptor, params, check_mode, api_version, remote, clock, loc,
                   calls, remote0, prev, run, fin, fout>>

\* create_mfa(), lines 205-218: line 206 raises NameError before the try,
\* and nothing catches it
MfaCreate ==
    /\ adaptor = "mfa" /\ pc = "create"
    /\ Finish(Result("raise", FALSE))
    /\ UNCHANGED <<adaptor, params, check_mode, api_version, remote, clock, loc,
                   calls, remote0, prev, run, fin, fout>>

-----------------------------------------------------------------------------
(* zabbix_sla.py.  get_slas() asks the correlation endpoint (line 204), so *)
(* the objects of its reply may or may not carry an "slaid".  The present  *)
(* branch of main() reads the name correlations (line 558), which nothing  *)
(* binds: NameError, outside any try.                                      *)

\* correlation.get with "filter": {"name": name}, lines 204-212
RemoteSlaGet(objs, name) == SelectSeq(objs, LAMBDA o : o.name = name)

\* sla.delete([id]), line 226
RemoteSlaDelete(objs, ids) ==
    SelectSeq(objs, LAMBDA o : IF "slaid" \in DOMAIN o THEN o.slaid \notin Range(ids)
                               ELSE TRUE)

\* a lookup that takes any number of matches
TooManySlasNever(slas) == FALSE

\* get_slas(), line 213: "if len(slas) >= 2"
TooManySlas(slas) == Len(slas) >= 2

\* get_slas(), lines 202-219, and main(), lines 549-561
SlaGet ==
    /\ adaptor = "sla" /\ pc = "start"
    /\ \/ /\ calls' = Append(calls, Call("correlation.get", params.name, FALSE))
          /\ Finish(Result("fail", FALSE))
          /\ UNCHANGED loc
       \/ /\ calls' = Append(calls, Call("correlation.get", params.name, TRUE))
          /\ LET slas == RemoteSlaGet(remote, params.name)
             IN  /\ loc' = [loc EXCEPT !.slas = slas]
                 /\ IF TooManySlas(slas) THEN Finish(Result("fail", FALSE))
                    ELSE IF params.state = "absent"
                    THEN IF Len(slas) = 1 THEN pc' = "delete" /\ UNCHANGED result
                         ELSE Finish(Result("exit", FALSE))
                    ELSE Finish(Result("raise", FALSE))
    /\ UNCHANGED <<adaptor, params, check_mode, api_version, remote, clock,
                   remote0, prev, run, fin, fout>>

\* delete_sla(), lines 221-233: sla["slaid"] raises KeyError inside the try
\* when the object has no such key
SlaDelete ==
    /\ adaptor = "sla" /\ pc = "delete"
    /\ LET sla == loc.slas[1]
       IN  \/ /\ "slaid" \notin DOMAIN sla
              /\ Finish(Result("fail", FALSE))
              /\ UNCHANGED <<calls, remote>>
           \/ /\ "slaid" \in DOMAIN sla /\ CheckMode
              /\ Finish(Result("exit", TRUE))
              /\ UNCHANGED <<calls, remote>>
           \/ /\ "slaid" \in DOMAIN sla /\ ~CheckMode
              /\ calls' = Append(calls, Call("sla.delete", <<sla.slaid>>, FALSE))
              /\ Finish(Result("fail", FALSE))
              /\ UNCHANGED remote
           \/ /\ "slaid" \in DOMAIN sla /\ ~CheckMode
              /\ calls' = Append(calls, Call("sla.delete", <<sla.slaid>>, TRUE))
              /\ remote' = RemoteSlaDelete(remote, <<sla.slaid>>)
              /\ Finish(Result("exit", TRUE))
    /\ UNCHANGED <<adaptor, params, check_mode, api_version, clock, loc,
                   remote0, prev, run, fin, fout>>

\* The module is invoked again with the same parameters, in check mode or
\* not, at once or a tick of the clock later.
Again ==
    /\ pc = "done" /\ run < MaxRuns
    /\ prev' = Some([check_mode |-> check_mode, result |-> result,
                     writes |-> Len(Writes(calls)), remote0 |-> remote0,
                     clock |-> clock])
    /\ check_mode' \in BOOLEAN
    /\ clock' \in {c \in {clock, clock + 1} : c <= MaxTick}
    /\ loc' = loc0
    /\ calls' = <<>>
    /\ result' = NoResult
    /\ remote0' = remote
    /\ run' = run + 1
    /\ pc' = "start"
    /\ UNCHANGED <<adaptor, params, api_version, remote, fin, fout>>

-----------------------------------------------------------------------------
(* The invocations the model starts from *)

Versions == {<<6, 0>>, <<6, 2>>, <<7, 0>>}

\* time periods as a task supplies them (argument_spec, lines 513-562)
DailyPeriod == [timeperiod_type |-> "daily", every |-> 1]
WeeklyPeriod == [timeperiod_type |-> "weekly", every |-> 2]

MaintPresentParams ==
    [state : {"present"},
     host_names : {None, Some(<<"h2", "h3">>), Some(<<"h2", "hx">>)},
     host_groups : {None, Some(<<>>), Some(<<"g1">>), Some(<<"gx">>)},
     append : BOOLEAN,
     minutes : {10},
     name : {"m"},
     desc : {"Created by Ansible"},
     collect_data : BOOLEAN,
     visible_name : {TRUE},
     active_since : {<<>>, T0900},
     active_till : {<<>>, T1700},
     tags : {None, Some(<<TagArg("app", "x")>>)},
     minutes_supplied : {FALSE},
     timeperiods : {None},
     tags_evaltype : {"and_or"}]

MaintAbsentParams ==
    [state : {"absent"},
     host_names : {None},
     host_groups : {None},
     append : {FALSE},
     minutes : {10},
     name : {"m"},
     desc : {"Created by Ansible"},
     collect_data : BOOLEAN,
     visible_name : {TRUE},
     active_since : {<<>>},
     active_till : {<<>>},
     tags : {None, Some(<<TagArg("app", "x")>>)},
     minutes_supplied : BOOLEAN,
     timeperiods : {None, Some(<<DailyPeriod>>)},
     tags_evaltype : {"and_or"}]

\* a maintenance "m" from 09:00 to 17:00 on 1979-09-19, as the remote system
\* holds it
StoredMaintenance(id, groupids, hostids) ==
    [maintenanceid |-> id, name |-> "m", groupids |-> groupids,
     hostids |-> hostids, maintenance_type |-> PyStr(0),
     active_since |-> PyStr(EpochOfLocal(T0900, HostZone)),
     active_till |-> PyStr(EpochOfLocal(T1700, HostZone)),
     description |-> "Created by Ansible", tags |-> <<>>]

\* the same with a tag
TaggedMaintenance ==
    [StoredMaintenance(7, <<1>>, <<3, 2>>) EXCEPT !.tags = <<TagGot("app", "x")>>]

MaintRemotes ==
    {<<>>,
     <<StoredMaintenance(7, <<>>, <<1, 2>>)>>,
     <<StoredMaintenance(7, <<1>>, <<3, 2>>)>>,
     <<TaggedMaintenance>>,
     <<StoredMaintenance(7, <<>>, <<1, 2>>), StoredMaintenance(8, <<1>>, <<3, 2>>)>>}

InitMaintenance ==
    /\ adaptor = "maintenance"
    /\ params \in MaintPresentParams \cup MaintAbsentParams
    /\ api_version \in Versions
    /\ remote \in MaintRemotes

MfaVersions == {<<6, 4>>, <<7, 0>>, <<7, 2>>}

MfaParams ==
    [state : {"present", "absent"}, name : {"m"}, mfa_type : {"totp"},
     hash_function : {Some("sha-1"), Some("sha-256")},
     code_length : {Some(6), Some(8)},
     api_hostname : {None}, clientid : {None}, client_secret : {None}]
    \cup
    [state : {"present", "absent"}, name : {"m"}, mfa_type : {"duo_universal_prompt"},
     hash_function : {None}, code_length : {None},
     api_hostname : {Some("duo.example.org")}, clientid : {Some("id")},
     client_secret : {Some("secret")}]

\* MFA methods as the remote system holds them: a TOTP method (type "1",
\* hash_function "1": sha-1) and a Duo method (type "2")
StoredTotp(id, name, code_length) ==
    [mfaid |-> id, name |-> name, type |-> PyStr(1), hash_function |-> PyStr(1),
     code_length |-> PyStr(code_length)]
StoredDuo(id, name) ==
    [mfaid |-> id, name |-> name, type |-> PyStr(2),
     api_hostname |-> "duo.example.org", clientid |-> "id"]

MfaRemotes ==
    {<<>>,
     <<StoredTotp(4, "m", 6)>>,
     <<StoredDuo(4, "m")>>,
     <<StoredTotp(4, "mx", 6)>>,
     <<StoredTotp(4, "m", 8), StoredTotp(5, "mx", 6)>>,
     <<StoredTotp(4, "m", 6), StoredDuo(5, "m")>>}

InitMfa ==
    /\ adaptor = "mfa"
    /\ params \in MfaParams
    /\ api_version \in MfaVersions
    /\ remote \in MfaRemotes

SlaParams ==
    [state : {"present", "absent"}, name : {"m"}, status : {"enabled", "disabled"}]

SlaRemotes ==
    {<<>>,
     <<[slaid |-> 5, name |-> "m"]>>,
     <<[correlationid |-> 5, name |-> "m"]>>,
     <<[slaid |-> 5, name |-> "other"]>>,
     <<[slaid |-> 5, name |-> "m"], [slaid |-> 6, name |-> "m"]>>}

InitSla ==
    /\ adaptor = "sla"
    /\ params \in SlaParams
    /\ api_version \in MfaVersions
    /\ remote \in SlaRemotes

Init ==
    /\ (InitMaintenance \/ InitMfa \/ InitSla)
    /\ check_mode \in BOOLEAN
    /\ clock = 0
    /\ pc = "start"
    /\ loc = loc0
    /\ calls = <<>>
    /\ result = NoResult
    /\ remote0 = remote
    /\ prev = None
    /\ run = 1
    /\ fin = None
    /\ fout = None

Next ==
    \/ MaintBegin
    \/ MaintGroupLookup
    \/ MaintHostLookup
    \/ MaintFetch
    \/ MaintUpdate
    \/ MaintCreate
    \/ MaintDelete
    \/ MfaBegin
    \/ MfaGet
    \/ MfaDelete
    \/ MfaUpdate
    \/ MfaCreate
    \/ SlaGet
    \/ SlaDelete
    \/ Again

Spec == Init /\ [][Next]_vars

-----------------------------------------------------------------------------
(* Properties of the invocations *)

CallsOf(op) == SelectSeq(calls, LAMBDA c : c.op = op)
Maint == adaptor = "maintenance"
Ended == pc = "done"

\* C1: in check mode no invocation of the maintenance, MFA or SLA adaptor
\* issues a create, update or delete call, and the remote objects stay as
\* they were, whatever the state, the remote objects and the diff.
C1_DryRunNeverWrites ==
    check_mode => (Writes(calls) = <<>> /\ remote = remote0)

\* C1 witness: a check-mode run of the maintenance adaptor that found a
\* maintenance, saw it differ and ended reporting the change
C1_Witness ==
    /\ Maint /\ check_mode /\ Ended
    /\ params.state = "present" /\ ~IsNone(loc.maintenance)
    /\ result = Result("exit", TRUE)

\* C2: after a run outside check mode with state=present has ended with a
\* success result, the next run of the maintenance adaptor with the same
\* parameters issues no write call and reports changed=false.
C2_SecondRunUnchanged ==
    (/\ Maint /\ params.state = "present" /\ ~IsNone(prev)
     /\ ~Val(prev).check_mode /\ Val(prev).result.kind = "exit")
    => /\ Writes(calls) = <<>>
       /\ (Ended /\ result.kind = "exit") => ~result.changed

\* the same when the clock has not moved between the two runs and the window
\* is given by active_since and active_till (for comparison)
C2_SecondRunUnchangedAtSameTime ==
    (/\ Maint /\ params.state = "present"
     /\ ~IsNone(prev) /\ Val(prev).clock = clock
     /\ params.active_since # <<>> /\ params.active_till # <<>>)
    => C2_SecondRunUnchanged

\* C3: a check-mode run of the maintenance adaptor reports the changed
\* value that a run outside check mode reports on the same parameters, the
\* same remote objects and the same clock reading.
C3_DryRunReportsSameChanged ==
    (/\ Maint /\ ~IsNone(prev)
     /\ Val(prev).check_mode /\ Val(prev).result.kind = "exit"
     /\ ~check_mode /\ Ended /\ result.kind = "exit"
     /\ Val(prev).clock = clock /\ Val(prev).remote0 = remote0)
    => result.changed = Val(prev).result.changed

\* C3 witness: a check-mode run reported changed=true for an update, and the
\* run after it, outside check mode, has made the update
C3_Witness ==
    /\ Maint /\ ~IsNone(prev) /\ Val(prev).check_mode
    /\ Val(prev).result = Result("exit", TRUE)
    /\ ~check_mode /\ Ended /\ result.kind = "exit"
    /\ Val(prev).clock = clock
    /\ Len(CallsOf("maintenance.update")) = 1

\* C4: an invocation of the maintenance or MFA adaptor issues at most one
\* write call; one that issues an update issues no create.
C4_AtMostOneWrite ==
    adaptor \in {"maintenance", "mfa"} => Len(Writes(calls)) <= 1

\* C4 witness: a run has issued an update that succeeded and has ended
C4_Witness ==
    /\ Maint /\ Ended /\ result = Result("exit", TRUE)
    /\ Len(CallsOf("maintenance.update")) = 1
    /\ CallsOf("maintenance.update")[1].ok

\* the ids the names of the parameters resolve to
ResolvedHostIds ==
    IF NotTruthy(params.host_names) THEN {}
    ELSE {HostDir(n)[1].hostid : n \in {x \in Range(Val(params.host_names)) : HostDir(x) # <<>>}}
ResolvedGroupIds ==
    IF NotTruthy(params.host_groups) THEN {}
    ELSE {GroupDir(n)[1].groupid : n \in {x \in Range(Val(params.host_groups)) : GroupDir(x) # <<>>}}

\* the maintenance the remote system held under the name when the run began
HeldAtStart == SelectSeq(remote0, LAMBDA o : o.name = params.name)

\* C5: with append=true and an existing maintenance, the host ids and group
\* ids used for the diff and sent in the update payload are, as sets, the
\* union of the resolved desired ids and the ids assigned to the maintenance,
\* each id once.
C5_AppendIsUnion ==
    (Maint /\ params.state = "present" /\ params.append
     /\ ~IsNone(loc.maintenance) /\ pc \in {"create", "done"}
     /\ (pc = "done" => result.kind = "exit" \/ CallsOf("maintenance.update") # <<>>))
    => LET m == Val(loc.maintenance)
           hostU == ResolvedHostIds \cup Range(HeldAtStart[1].hostids)
           groupU == ResolvedGroupIds \cup Range(HeldAtStart[1].groupids)
       IN  /\ Range(loc.host_ids) = hostU /\ Len(loc.host_ids) = Cardinality(hostU)
           /\ Range(loc.group_ids) = groupU /\ Len(loc.group_ids) = Cardinality(groupU)
           /\ \A i \in 1..Len(calls) :
                 calls[i].op = "maintenance.update" =>
                    /\ Range(PayloadHostIds(calls[i].arg)) = hostU
                    /\ Range(PayloadGroupIds(calls[i].arg)) = groupU

\* C5 witness: the maintenance has hosts 1 and 2, the names resolve to 2 and
\* 3, and the update sent carries hosts 1, 2 and 3
C5_Witness ==
    /\ Maint /\ params.append /\ Ended
    /\ HeldAtStart # <<>> /\ Range(HeldAtStart[1].hostids) = {1, 2}
    /\ ResolvedHostIds = {2, 3}
    /\ Len(CallsOf("maintenance.update")) = 1
    /\ Range(PayloadHostIds(CallsOf("maintenance.update")[1].arg)) = {1, 2, 3}

\* the host and group associations as the payload shape of the version has them
FlatShape(a) ==
    /\ {"groupids", "hostids"} \subseteq DOMAIN a
    /\ DOMAIN a \cap {"groups", "hosts"} = {}
    /\ a.groupids = loc.group_ids /\ a.hostids = loc.host_ids
RecordShape(a) ==
    /\ {"groups", "hosts"} \subseteq DOMAIN a
    /\ DOMAIN a \cap {"groupids", "hostids"} = {}
    /\ a.groups = [j \in 1..Len(loc.group_ids) |-> [groupid |-> loc.group_ids[j]]]
    /\ a.hosts = [j \in 1..Len(loc.host_ids) |-> [hostid |-> loc.host_ids[j]]]

\* C8: every maintenance create and update payload carries the host and
\* group associations in one shape, chosen by the API version: below 6.2 flat
\* id lists under groupids and hostids and no groups or hosts key; from 6.2 on
\* lists of {groupid} and {hostid} records under groups and hosts and no
\* groupids or hostids key.
C8_PayloadShapeByVersion ==
    \A i \in 1..Len(calls) :
       calls[i].op \in {"maintenance.create", "maintenance.update"} =>
          IF VersionLess(api_version, V62) THEN FlatShape(calls[i].arg)
          ELSE RecordShape(calls[i].arg)

\* C8 witness: against a 6.0 API a create has been sent with a flat list of
\* group ids that is not empty
C8_Witness ==
    /\ Maint /\ api_version = <<6, 0>> /\ Ended
    /\ Len(CallsOf("maintenance.create")) = 1
    /\ "groupids" \in DOMAIN CallsOf("maintenance.create")[1].arg
    /\ CallsOf("maintenance.create")[1].arg.groupids = <<1>>

\* C9: with state=absent a delete call comes only after a fetch by name of
\* the same invocation returned a maintenance, and it carries the id of that
\* maintenance; when the fetch returns none the invocation reports
\* changed=false and issues no write call.
C9_DeleteOnlyWhatWasFetched ==
    (Maint /\ params.state = "absent") =>
       /\ \A i \in 1..Len(calls) :
             calls[i].op \in WriteOps =>
                /\ calls[i].op = "maintenance.delete"
                /\ \E j \in 1..(i - 1) : calls[j].op = "maintenance.get" /\ calls[j].ok
                /\ ~IsNone(loc.maintenance)
                /\ calls[i].arg = <<Val(loc.maintenance).maintenanceid>>
                /\ \E k \in 1..Len(HeldAtStart) :
                      HeldAtStart[k].maintenanceid = Val(loc.maintenance).maintenanceid
       /\ (Ended /\ HeldAtStart = <<>> /\ Call("maintenance.get", params.name, TRUE) \in Range(calls))
             => (result = Result("exit", FALSE) /\ Writes(calls) = <<>>)

\* C9 witness: the maintenance 7 was fetched and the delete sent with its id
\* removed it
C9_Witness ==
    /\ Maint /\ params.state = "absent" /\ Ended
    /\ result = Result("exit", TRUE)
    /\ Len(calls) = 2 /\ calls[1].op = "maintenance.get"
    /\ calls[2] = Call("maintenance.delete", <<7>>, TRUE)
    /\ Len(HeldAtStart) = 1 /\ remote = <<>>

\* a name of host_names or host_groups resolves to no remote object
UnresolvedName ==
    \/ /\ ~NotTruthy(params.host_names)
       /\ \E n \in Range(Val(params.host_names)) : HostDir(n) = <<>>
    \/ /\ ~NotTruthy(params.host_groups)
       /\ \E n \in Range(Val(params.host_groups)) : GroupDir(n) = <<>>

\* C10: with state=present, when a name of host_names or host_groups
\* resolves to no remote object the invocation ends in a failure, a fail
\* result unless a remote call raised before, and issues no create, update
\* or delete call.
C10_UnresolvedNameFails ==
    (Maint /\ params.state = "present" /\ UnresolvedName) =>
       /\ Writes(calls) = <<>>
       /\ Ended => /\ result.kind \in {"fail", "raise"}
                   /\ (\A i \in 1..Len(calls) : calls[i].ok) => result.kind = "fail"

\* C10 witness: the first host name resolved, the second did not, and the
\* run ended with a fail result
C10_Witness ==
    /\ Maint /\ params.state = "present" /\ Ended
    /\ result.kind = "fail"
    /\ Len(calls) >= 2
    /\ calls[Len(calls)] = Call("host.get", "hx", TRUE)
    /\ calls[Len(calls) - 1] = Call("host.get", "h2", TRUE)

-----------------------------------------------------------------------------
(* The MFA adaptor *)

Mfa == adaptor = "mfa"

\* the None that holds position 0 of the lists of lines 181-185 and 190-195
NoneEntry == "None"

\* _convert_to_parameter(), lines 181-185 and 190-195: the literal lists
MfaTypes == <<NoneEntry, "totp", "duo_universal_prompt">>
HashFunctions == <<NoneEntry, "sha-1", "sha-256", "sha-512">>

\* an encoding that counts the positions from one
helper_to_numeric_value_from1(elements, v) == CHOOSE i \in 1..Len(elements) : elements[i] = v

\* zabbix_utils.helper_to_numeric_value(), as lines 180-197 use it: the
\* position of the value in the list, the first position being 0
helper_to_numeric_value(elements, v) == (CHOOSE i \in 1..Len(elements) : elements[i] = v) - 1

\* _convert_to_parameter(), lines 177-203: the parameters of a TOTP or of a
\* Duo method
convert_to_parameter(p) ==
    IF p.mfa_type = "totp"
    THEN [name |-> p.name, type |-> PyStr(helper_to_numeric_value(MfaTypes, p.mfa_type)),
          hash_function |-> PyStr(helper_to_numeric_value(HashFunctions, Val(p.hash_function))),
          code_length |-> PyStr(Val(p.code_length))]
    ELSE [name |-> p.name, type |-> PyStr(helper_to_numeric_value(MfaTypes, p.mfa_type)),
          api_hostname |-> Val(p.api_hostname), clientid |-> Val(p.clientid),
          client_secret |-> Val(p.client_secret)]

\* the method get_mfa() found, when the get call succeeded
MfaFound == Mfa /\ Call("mfa.get", params.name, TRUE) \in Range(calls) /\ ~IsNone(loc.mfa)

\* C11: with state=present, mfa_type=totp and an existing method whose
\* hash_function and code_length equal the desired ones, the invocation ends
\* with changed=false and issues no update call.
C11_TotpEqualIsUnchanged ==
    (/\ MfaFound /\ Ended
     /\ params.state = "present" /\ params.mfa_type = "totp"
     /\ "hash_function" \in DOMAIN Val(loc.mfa)
     /\ convert_to_parameter(params).hash_function = Val(loc.mfa).hash_function
     /\ convert_to_parameter(params).code_length = Val(loc.mfa).code_length)
    => (result = Result("exit", FALSE) /\ CallsOf("mfa.update") = <<>>)

\* C12: with state=present, mfa_type=duo_universal_prompt and an existing
\* method, every invocation ends with changed=true, and outside check mode
\* it issues exactly one update call.
C12_DuoAlwaysChanged ==
    (/\ MfaFound /\ Ended
     /\ params.state = "present" /\ params.mfa_type = "duo_universal_prompt")
    => /\ result = Result("exit", TRUE)
       /\ ~check_mode => Len(CallsOf("mfa.update")) = 1

\* C13: below API version 7.0 every invocation of the MFA adaptor ends in a
\* failure and issues no mfa get, create, update or delete call; from 7.0 on
\* the gate lets the invocation through to its get call.
C13_VersionGate ==
    Mfa => IF VersionLess(api_version, <<7, 0>>)
           THEN /\ calls = <<>> /\ remote = remote0
                /\ pc \in {"start", "done"}
                /\ Ended => result = Result("fail", FALSE)
           ELSE Ended => calls # <<>> /\ calls[1].op = "mfa.get"

\* C13 witness: against a 6.4 API an invocation that had a method to delete
\* has ended in failure without a call
C13_Witness ==
    /\ Mfa /\ api_version = <<6, 4>> /\ Ended
    /\ params.state = "absent" /\ remote # <<>> /\ remote[1].name = "m"
    /\ result = Result("fail", FALSE) /\ calls = <<>>

-----------------------------------------------------------------------------
(* The SLA adaptor *)

SlaAdaptor == adaptor = "sla"

\* the objects the lookup by name of the invocation returned
SlaMatches == SelectSeq(remote0, LAMBDA o : o.name = params.name)
SlaLookedUp == SlaAdaptor /\ calls # <<>> /\ calls[1].ok

\* C14: when the lookup by name of the SLA adaptor returns two or more
\* matches the invocation ends in a failure and issues no create, update or
\* delete call, with state=present and with state=absent.
C14_TooManySlasFail ==
    (SlaLookedUp /\ Len(SlaMatches) >= 2) =>
       /\ Ended /\ result = Result("fail", FALSE)
       /\ Writes(calls) = <<>> /\ Len(calls) = 1 /\ remote = remote0

\* C14 witness: two SLAs carry the name, the state is absent, the run is not
\* a check-mode run, and it has failed after the lookup
C14_Witness ==
    /\ SlaLookedUp /\ Len(SlaMatches) = 2 /\ Ended
    /\ params.state = "absent" /\ ~check_mode
    /\ result = Result("fail", FALSE)

-----------------------------------------------------------------------------
(* Names that more than one remote object carries *)

\* the fetch by name of the invocation was answered
Fetched ==
    \/ Maint /\ Call("maintenance.get", params.name, TRUE) \in Range(calls)
    \/ Mfa /\ Call("mfa.get", params.name, TRUE) \in Range(calls)

\* C15: in the maintenance and the MFA adaptor, when the fetch by name
\* returns two or more objects carrying the requested name, the invocation
\* fails and attempts no create, update or delete call.
C15_DuplicateNameFails ==
    (Fetched /\ Len(HeldAtStart) >= 2) =>
       /\ Writes(calls) = <<>>
       /\ Ended => result.kind = "fail"

\* the id of an object of the lookup's reply
SlaIdOf(o) == IF "slaid" \in DOMAIN o THEN o.slaid ELSE o.correlationid

\* C16: the SLA adaptor follows the id-based contract: with state=present it
\* issues an SLA create call when the lookup by name finds no object and an
\* SLA update call with the id of the object when it finds one (in check mode
\* it reports the outcome instead), and with state=absent it issues an SLA
\* delete call with the id of the object found.
C16_SlaIdContract ==
    (/\ SlaLookedUp /\ Ended /\ Len(SlaMatches) <= 1
     /\ \A i \in 1..Len(calls) : calls[i].ok)
    => IF check_mode
       THEN /\ Writes(calls) = <<>>
            /\ (params.state = "present" \/ Len(SlaMatches) = 1) => result.kind = "exit"
       ELSE /\ (params.state = "present" /\ Len(SlaMatches) = 0)
                  => Len(CallsOf("sla.create")) = 1
            /\ (params.state = "present" /\ Len(SlaMatches) = 1)
                  => (result.kind = "exit" /\
                      (result.changed =>
                         /\ Len(CallsOf("sla.update")) = 1
                         /\ CallsOf("sla.update")[1].arg.slaid = SlaIdOf(SlaMatches[1])))
            /\ (params.state = "absent" /\ Len(SlaMatches) = 1)
                  => Call("sla.delete", <<SlaIdOf(SlaMatches[1])>>, TRUE) \in Range(calls)

-----------------------------------------------------------------------------
(* The checks of the maintenance parameters *)

\* C17: with state=present, when neither host_names nor host_groups holds a
\* name, the invocation ends in a failure before any host, host group or
\* maintenance call is made.
C17_NoHostNoGroupFails ==
    (/\ Maint /\ params.state = "present"
     /\ NotTruthy(params.host_names) /\ NotTruthy(params.host_groups))
    => /\ calls = <<>> /\ remote = remote0
       /\ pc \in {"start", "done"}
       /\ Ended => result = Result("fail", FALSE)

\* C17 witness: data is collected and no tags are given, host_names is
\* absent and host_groups is an empty list, a maintenance of the name
\* exists, and the run has failed without a call
C17_Witness ==
    /\ Maint /\ params.state = "present" /\ Ended
    /\ params.collect_data /\ IsNone(params.tags)
    /\ IsNone(params.host_names) /\ params.host_groups = Some(<<>>)
    /\ HeldAtStart # <<>>
    /\ result = Result("fail", FALSE) /\ calls = <<>>

\* C18: tags need collect_data: an invocation that gives tags with
\* collect_data=false ends in a failure and issues no host, host group or
\* maintenance call; the maintenance type sent is 0 with collect_data=true
\* and 1 with collect_data=false and no tags.
C18_TagsNeedCollectData ==
    Maint =>
       /\ (~params.collect_data /\ ~IsNone(params.tags)) =>
             /\ calls = <<>> /\ remote = remote0
             /\ pc \in {"start", "done"}
             /\ Ended => result = Result("fail", FALSE)
       /\ \A i \in 1..Len(calls) :
             calls[i].op \in {"maintenance.create", "maintenance.update"} =>
                calls[i].arg.maintenance_type = PyInt(IF params.collect_data THEN 0 ELSE 1)

\* C18 witness: tags and a host group that resolves are given with
\* collect_data=false, and the run has failed without a call
C18_Witness ==
    /\ Maint /\ params.state = "present" /\ Ended
    /\ ~params.collect_data /\ ~IsNone(params.tags)
    /\ params.host_groups = Some(<<"g1">>)
    /\ result = Result("fail", FALSE) /\ calls = <<>>

-----------------------------------------------------------------------------
(* Remote calls that fail *)

-----------------------------------------------------------------------------
(* The window on whole minutes (SpecTime) *)

\* the seconds component of an emitted epoch value on the local clock; the
\* UTC offsets of Zones are whole minutes
SecondsOf(emitted) == emitted.v % 60

\* C20: the window start is rounded down to the minute: whether the start
\* comes from active_since or from the current time, the emitted
\* active_since has a seconds component of zero on the local clock, and so
\* has the emitted active_till when it comes from active_till.
C20_WindowOnWholeMinutes ==
    ~IsNone(fout) =>
        /\ SecondsOf(Val(fout).parameters.active_since) = 0
        /\ fin.active_till # <<>> => SecondsOf(Val(fout).parameters.active_till) = 0

\* the part of C20 that holds: a start taken from the current time is on a
\* whole minute (for comparison)
C20_NowIsRoundedDown ==
    (~IsNone(fout) /\ fin.active_since = <<>>) =>
        SecondsOf(Val(fout).parameters.active_since) = 0

\* the end of a window whose start is the current time (for comparison)
C20_TillAfterNowOnWholeMinute ==
    (~IsNone(fout) /\ fin.active_since = <<>> /\ fin.active_till # <<>>) =>
        SecondsOf(Val(fout).parameters.active_till) = 0

-----------------------------------------------------------------------------
(* The order of the remote calls of the maintenance adaptor *)

\* lookups come first, the fetch second, the writes last
CallRank(c) ==
    IF c.op \in {"hostgroup.get", "host.get"} THEN 1
    ELSE IF c.op = "maintenance.get" THEN 2
    ELSE 3

CallsInOrder ==
    /\ \A i, j \in 1..Len(calls) : i < j => CallRank(calls[i]) <= CallRank(calls[j])
    /\ Len(Writes(calls)) <= 1
    /\ Len(CallsOf("maintenance.get")) <= 1
    /\ Writes(calls) # <<>> => Call("maintenance.get", params.name, TRUE) \in Range(calls)

\* C21 as stated: every invocation of the maintenance adaptor issues all
\* its host group and host lookups first, then exactly one fetch of the
\* maintenance by name, then zero or one write.
C21_LookupsFetchWrite ==
    Maint => /\ CallsInOrder
             /\ Ended => Len(CallsOf("maintenance.get")) = 1

\* C21: every invocation of the maintenance adaptor issues its lookups
\* first, then at most one fetch of the maintenance by name, exactly one when
\* it ends with a success result, then zero or one write; no lookup or fetch
\* follows a write and no write comes before the fetch.
C21_LookupsThenFetchThenWrite ==
    Maint => /\ CallsInOrder
             /\ (Ended /\ result.kind = "exit") => Len(CallsOf("maintenance.get")) = 1

\* C21 witness: a group lookup, two host lookups, the fetch and an update,
\* in that order, and a success result
C21_Witness ==
    /\ Maint /\ Ended /\ result = Result("exit", TRUE)
    /\ Len(calls) = 5
    /\ calls[1].op = "hostgroup.get" /\ calls[2].op = "host.get" /\ calls[3].op = "host.get"
    /\ calls[4].op = "maintenance.get" /\ calls[5].op = "maintenance.update"

-----------------------------------------------------------------------------
(* The encoding of the enumeration names (SpecEnum): the name of a list of *)
(* zabbix_mfa.py or zabbix_sla.py goes through helper_to_numeric_value().  *)

\* zabbix_sla.py, lines 236, 256-263, 265-270, 328-333 and 355: the literal
\* lists
operation_type_values == <<"close_old_events", "close_new_event">>
condition_type_values ==
    <<"old_event_tag", "new_event_tag", "new_event_host_group", "event_tag_pair",
      "old_event_tag_value", "new_event_tag_value">>
operator_values == <<"equal", "not_equal", "like", "not_like">>
evaltype_values == <<"and_or", "and", "or", "custom_expression">>
status_values == <<"enabled", "disabled">>

MfaTables == {MfaTypes, HashFunctions}
SlaTables == {operation_type_values, condition_type_values, operator_values,
              evaltype_values, status_values}
EnumTables == MfaTables \cup SlaTables
NamesOf(table) == Range(table) \ {NoneEntry}

InitEnum ==
    /\ idleRun
    /\ fin \in {[table |-> t, a |-> x, b |-> y] :
                   <<t, x, y>> \in {tr \in EnumTables \X (UNION {NamesOf(t) : t \in EnumTables})
                                                  \X (UNION {NamesOf(t) : t \in EnumTables}) :
                                       tr[2] \in NamesOf(tr[1]) /\ tr[3] \in NamesOf(tr[1])}}
    /\ fout = None

\* two names of one list are encoded
EncodeStep ==
    /\ fout = None
    /\ fout' = Some([a |-> helper_to_numeric_value(fin.table, fin.a),
                     b |-> helper_to_numeric_value(fin.table, fin.b)])
    /\ UNCHANGED <<fin, runVars>>

NextEnum == EncodeStep

SpecEnum == InitEnum /\ [][NextEnum]_vars

\* distinct names of one list get distinct codes, and the MFA codes are
\* totp 1, duo_universal_prompt 2, sha-1 1, sha-256 2, sha-512 3
CodesDistinctAndMfaCodes ==
    /\ fin.a # fin.b => Val(fout).a # Val(fout).b
    /\ fin.table = MfaTypes =>
          /\ fin.a = "totp" => Val(fout).a = 1
          /\ fin.a = "duo_universal_prompt" => Val(fout).a = 2
    /\ fin.table = HashFunctions =>
          /\ fin.a = "sha-1" => Val(fout).a = 1
          /\ fin.a = "sha-256" => Val(fout).a = 2
          /\ fin.a = "sha-512" => Val(fout).a = 3

\* C22 as stated: in every enumeration list of the MFA and SLA source files
\* position 0 is kept for unset, so no name encodes to 0, and distinct names
\* of one list encode to distinct codes (totp 1, duo_universal_prompt 2,
\* sha-1 1, sha-256 2, sha-512 3).
C22_NoNameEncodesToZero ==
    ~IsNone(fout) => (CodesDistinctAndMfaCodes /\ Val(fout).a # 0)

\* C22: every name encodes to its position in its literal list and distinct
\* names of one list encode to distinct codes; the MFA lists hold None at
\* position 0, so their names encode from 1 (totp 1, duo_universal_prompt 2,
\* sha-1 1, sha-256 2, sha-512 3), while the SLA lists hold a name at
\* position 0, which encodes to 0.
C22_NameEncodesToItsPosition ==
    ~IsNone(fout) =>
        /\ CodesDistinctAndMfaCodes
        /\ fin.table[Val(fout).a + 1] = fin.a
        /\ fin.table \in MfaTables => Val(fout).a # 0
        /\ fin.table \in SlaTables => (Val(fout).a = 0 <=> fin.a = fin.table[1])

\* C22 witness: totp and duo_universal_prompt have been encoded as 1 and 2
C22_Witness ==
    /\ ~IsNone(fout) /\ fin.table = MfaTypes
    /\ fin.a = "totp" /\ fin.b = "duo_universal_prompt"
    /\ Val(fout) = [a |-> 1, b |-> 2]

-----------------------------------------------------------------------------
(* The tags in the diff (SpecDiff) *)

\* a tag record by what it says: its name, its value and the code of its
\* operator, however the code is written
TagSays(t) == [tag |-> t.tag, value |-> t.value, operator |-> t.operator.v]
TagCount(tags, r) == Cardinality({i \in 1..Len(tags) : TagSays(tags[i]) = r})

\* two tag lists hold the same records the same number of times
SameTagsAsMultisets(a, b) ==
    /\ Len(a) = Len(b)
    /\ \A i \in 1..Len(a) : TagCount(a, TagSays(a[i])) = TagCount(b, TagSays(a[i]))

\* C23: the diff compares the tag lists whatever their order: for a desired
\* and a current tag list that are equal as multisets of tag records, lists
\* with several records of one tag name included, check_maint_properties
\* reports no difference of the tags.
C23_TagOrderDoesNotMatter ==
    (/\ ~IsNone(fout) /\ ~IsNone(fin.tags) /\ ~OtherFieldDiffers
     /\ SameTagsAsMultisets(Val(fin.tags), fin.maintenance.tags))
    => Val(fout) = FALSE

\* the one case of C23 that holds: two empty lists (for comparison)
C23_HoldsForEmptyLists ==
    IF IsNone(fin.tags) THEN TRUE
    ELSE Val(fin.tags) = <<>> => C23_TagOrderDoesNotMatter

-----------------------------------------------------------------------------
(* Tags that are not supplied *)

\* a field other than the tags differs between what main() asks for and the
\* maintenance m
OtherFieldsDifferFrom(m) ==
    \/ sorted(loc.group_ids) # sorted(m.groupids)
    \/ sorted(loc.host_ids) # sorted(m.hostids)
    \/ PyStr(loc.maintenance_type) # m.maintenance_type
    \/ PyStr(loc.start_time) # m.active_since
    \/ PyStr(loc.start_time + loc.period) # m.active_till
    \/ params.desc # m.description

\* main() has compared the maintenance it fetched with what it asks for
DiffDone ==
    /\ Maint /\ params.state = "present" /\ ~IsNone(loc.maintenance)
    /\ \/ pc = "create"
       \/ pc = "done" /\ (result.kind = "exit" \/ CallsOf("maintenance.update") # <<>>)

\* and has found a difference
DiffReported == loc.changed \/ CallsOf("maintenance.update") # <<>>

\* C24: tags that are not supplied are no opinion: the tags of the current
\* object never make the diff report a change, and the create or update
\* payload has no tags key.
C24_AbsentTagsAreNoOpinion ==
    (Maint /\ IsNone(params.tags)) =>
       /\ \A i \in 1..Len(calls) :
             calls[i].op \in {"maintenance.create", "maintenance.update"} =>
                "tags" \notin DOMAIN calls[i].arg
       /\ (DiffDone /\ DiffReported) => OtherFieldsDifferFrom(Val(loc.maintenance))
       /\ HeldAtStart # <<>> => \A i \in 1..Len(remote) : remote[i].tags = HeldAtStart[1].tags

\* C24 witness: the maintenance has a tag, the parameters give none and ask
\* for what the maintenance has otherwise, and the run ends unchanged
\* without a write
C24_Witness ==
    /\ Maint /\ IsNone(params.tags) /\ Ended /\ DiffDone
    /\ Val(loc.maintenance).tags # <<>>
    /\ result = Result("exit", FALSE) /\ Writes(calls) = <<>>

-----------------------------------------------------------------------------
(* The ids the calls carry *)

\* the ids of the objects of the requested name the remote system held when
\* the invocation began
HeldIds(key) ==
    {remote0[i][key] : i \in {j \in 1..Len(remote0) :
                                 remote0[j].name = params.name /\ key \in DOMAIN remote0[j]}}

\* the fetch by name was answered before call i
FetchedBefore(i, op) == \E j \in 1..(i - 1) : calls[j] = Call(op, params.name, TRUE)

\* C25: the id of every update or delete call of the maintenance, MFA and
\* SLA adaptors is the id of an object the fetch by name of the same
\* invocation returned; no adaptor sends an id of its own making, and a
\* create call carries no id.
C25_IdsComeFromTheFetch ==
    \A i \in 1..Len(calls) :
       /\ calls[i].op = "maintenance.update" =>
             /\ FetchedBefore(i, "maintenance.get")
             /\ calls[i].arg.maintenanceid \in HeldIds("maintenanceid")
       /\ calls[i].op = "maintenance.delete" =>
             /\ FetchedBefore(i, "maintenance.get")
             /\ Len(calls[i].arg) = 1 /\ calls[i].arg[1] \in HeldIds("maintenanceid")
       /\ calls[i].op = "mfa.delete" =>
             /\ FetchedBefore(i, "mfa.get")
             /\ Len(calls[i].arg) = 1 /\ calls[i].arg[1] \in HeldIds("mfaid")
       /\ calls[i].op = "sla.delete" =>
             /\ FetchedBefore(i, "correlation.get")
             /\ Len(calls[i].arg) = 1 /\ calls[i].arg[1] \in HeldIds("slaid")
       /\ calls[i].op = "maintenance.create" =>
             "maintenanceid" \notin DOMAIN calls[i].arg

\* C25 witness: of the methods "m" (id 4) and "mx" (id 5) that the search
\* returned, the delete call carried the id of "m"
C25_Witness ==
    /\ Mfa /\ Ended /\ Len(remote0) = 2
    /\ remote0[1].name = "m" /\ remote0[2].name = "mx"
    /\ Len(calls) = 2 /\ calls[2] = Call("mfa.delete", <<remote0[1].mfaid>>, TRUE)

-----------------------------------------------------------------------------
(* The time period of the payloads *)

\* the payload a has one time period, of the one-time type, from its
\* active_since to its active_till
OnePeriodOverWindow(a) ==
    /\ Len(a.timeperiods) = 1
    /\ a.timeperiods[1].timeperiod_type = PyStr(0)
    /\ a.timeperiods[1].start_date = a.active_since
    /\ a.timeperiods[1].period = PyStr(a.active_till.v - a.active_since.v)

-----------------------------------------------------------------------------
(* How an invocation ends *)

\* C27: every invocation of the maintenance and of the MFA adaptor ends,
\* after finitely many remote calls, with exactly one outcome: a success
\* result with a boolean changed (exit_json) or a failure with a message
\* (fail_json), never with neither.
C27_OneOutcome ==
    ((Maint \/ Mfa) /\ Ended) =>
        /\ result.kind \in {"exit", "fail"}
        /\ result.changed \in BOOLEAN
        /\ result.kind = "fail" => ~result.changed

\* the remote calls of an invocation are few: a lookup for each name, a
\* fetch and a write (for comparison)
C27_FewCalls == (Maint \/ Mfa) => Len(calls) <= 5

\* the invocations of the MFA adaptor that do not go through create_mfa()
\* end with one of the two outcomes (for comparison)
C27_MfaOutcomeOutsideCreate ==
    (Mfa /\ Ended /\ ~(params.state = "present" /\ IsNone(loc.mfa)
                       /\ Call("mfa.get", params.name, TRUE) \in Range(calls)))
        => result.kind \in {"exit", "fail"}

-----------------------------------------------------------------------------
(* changed and the writes of the maintenance adaptor *)

\* C28: outside dry-run, a maintenance invocation that ends with a success
\* result reports changed = true if and only if it issued exactly one write
\* call and that call returned successfully, and changed = false exactly
\* when it issued no write call.
C28_ChangedIffOneWrite ==
    (Maint /\ ~check_mode /\ Ended /\ result.kind = "exit") =>
        /\ result.changed <=> (/\ Len(Writes(calls)) = 1
                               /\ Writes(calls)[1].ok)
        /\ ~result.changed <=> (Writes(calls) = <<>>)

\* an invocation outside dry-run that wrote once and reports the change
C28_Witness ==
    /\ Maint /\ ~check_mode /\ Ended
    /\ result = Result("exit", TRUE)
    /\ Len(Writes(calls)) = 1
    /\ Writes(calls)[1].op = "maintenance.update"

-----------------------------------------------------------------------------
(* Running again what is already in place *)

\* a maintenance held by the remote system is what the parameters ask for:
\* the window of active_since and active_till, the collection mode, the
\* description, and the resolved host and group ids in whatever order
AsDesired(m) ==
    /\ m.active_since = PyStr(EpochOfLocal(params.active_since, HostZone))
    /\ m.active_till = PyStr(EpochOfLocal(params.active_till, HostZone))
    /\ m.maintenance_type = PyStr(MaintenanceTypeOf(params.collect_data))
    /\ m.description = params.desc
    /\ Range(m.hostids) = ResolvedHostIds
    /\ Range(m.groupids) = ResolvedGroupIds

\* every name of the parameters resolves
AllNamesResolve ==
    /\ NotTruthy(params.host_names)
          \/ \A n \in Range(Val(params.host_names)) : HostDir(n) # <<>>
    /\ NotTruthy(params.host_groups)
          \/ \A n \in Range(Val(params.host_groups)) : GroupDir(n) # <<>>

\* state=present with both ends of the window given and no tags, against a
\* remote system that holds the maintenance as desired
AlreadyInPlace ==
    /\ Maint /\ params.state = "present"
    /\ params.active_since # <<>> /\ params.active_till # <<>>
    /\ IsNone(params.tags)
    /\ AllNamesResolve
    /\ HeldAtStart # <<>>
    /\ \A i \in 1..Len(HeldAtStart) : AsDesired(HeldAtStart[i])

\* C29: state=present with explicit active_since and active_till and no
\* tags, against a maintenance of that name with the same window, collection
\* mode, description and the same host and group ids up to ordering, issues
\* no write call and, when its lookups and its fetch are answered, ends with
\* a success result and changed = false, at whatever time it runs and in
\* every repetition.
C29_NoChangeWhenInPlace ==
    AlreadyInPlace =>
        /\ Writes(calls) = <<>>
        /\ (Ended /\ \A i \in 1..Len(calls) : calls[i].ok)
              => result = Result("exit", FALSE)

\* the second run, a minute after the first, of an invocation whose hosts
\* h2 and h3 are held as ids 3 and 2: both runs report no change
C29_Witness ==
    /\ AlreadyInPlace /\ Ended /\ run = 2 /\ clock = 1 /\ ~check_mode
    /\ params.host_names = Some(<<"h2", "h3">>)
    /\ HeldAtStart[1].hostids = <<3, 2>>
    /\ Val(prev).clock = 0 /\ Val(prev).result = Result("exit", FALSE)
    /\ Call("maintenance.get", params.name, TRUE) \in Range(calls)
    /\ result = Result("exit", FALSE)

-----------------------------------------------------------------------------
(* Two invocations that differ in timeperiods and tags_evaltype only *)

\* the values of the two parameters (argument_spec, lines 513-562 and
\* 588-590)
TimeperiodsValues == {None, Some(<<DailyPeriod>>), Some(<<WeeklyPeriod>>)}
TagsEvaltypeValues == {"and_or", "or"}

PairParams ==
    [state : {"present", "absent"},
     host_names : {Some(<<"h2", "h3">>)},
     host_groups : {Some(<<"g1">>)},
     append : BOOLEAN,
     minutes : {10},
     name : {"m"},
     desc : {"Created by Ansible"},
     collect_data : {TRUE},
     visible_name : {TRUE},
     active_since : {<<>>, T0900},
     active_till : {<<>>, T1700},
     tags : {None, Some(<<TagArg("app", "x")>>)},
     minutes_supplied : BOOLEAN,
     timeperiods : TimeperiodsValues,
     tags_evaltype : TagsEvaltypeValues]

PairRemotes ==
    {<<>>,
     <<StoredMaintenance(7, <<1>>, <<3, 2>>)>>,
     <<TaggedMaintenance>>}

InitPair ==
    /\ adaptor = "maintenance"
    /\ params \in PairParams
    /\ api_version \in {<<6, 0>>, <<7, 0>>}
    /\ remote \in PairRemotes
    /\ check_mode \in BOOLEAN
    /\ clock = 0
    /\ pc = "start"
    /\ loc = loc0
    /\ calls = <<>>
    /\ result = NoResult
    /\ remote0 = remote
    /\ prev = None
    /\ run = 1
    /\ fin = None
    /\ fout = None

\* The module is invoked a second time with other values of timeperiods and
\* tags_evaltype and everything else as it was: the same remaining
\* parameters, the remote state the first invocation found, the same time.
RunOtherwise ==
    /\ pc = "done" /\ run = 1
    /\ prev' = Some([params |-> params, calls |-> calls, result |-> result])
    /\ \E tp \in TimeperiodsValues, te \in TagsEvaltypeValues :
          /\ <<tp, te>> # <<params.timeperiods, params.tags_evaltype>>
          /\ params' = [params EXCEPT !.timeperiods = tp, !.tags_evaltype = te]
    /\ remote' = remote0
    /\ loc' = loc0
    /\ calls' = <<>>
    /\ result' = NoResult
    /\ run' = 2
    /\ pc' = "start"
    /\ UNCHANGED <<adaptor, check_mode, api_version, clock, remote0, fin, fout>>

NextPair ==
    \/ MaintBegin
    \/ MaintGroupLookup
    \/ MaintHostLookup
    \/ MaintFetch
    \/ MaintUpdate
    \/ MaintCreate
    \/ MaintDelete
    \/ RunOtherwise

SpecPair == InitPair /\ [][NextPair]_vars

\* both invocations are over and every remote call of both was answered
BothAnswered ==
    /\ Maint /\ Ended /\ run = 2
    /\ \A i \in 1..Len(calls) : calls[i].ok
    /\ \A i \in 1..Len(Val(prev).calls) : Val(prev).calls[i].ok

\* a payload without its host and group ids
WithoutIds(a) ==
    [k \in DOMAIN a \ {"groups", "hosts", "groupids", "hostids"} |-> a[k]]

\* two calls are the same: the same operation, answer and payload, the host
\* and group ids of a written maintenance taken as sets, since with append
\* their order is that of a Python set (lines 680 and 682)
SameCall(c, d) ==
    /\ c.op = d.op /\ c.ok = d.ok
    /\ IF c.op \in {"maintenance.create", "maintenance.update"}
       THEN /\ DOMAIN c.arg = DOMAIN d.arg
            /\ WithoutIds(c.arg) = WithoutIds(d.arg)
            /\ Range(PayloadHostIds(c.arg)) = Range(PayloadHostIds(d.arg))
            /\ Range(PayloadGroupIds(c.arg)) = Range(PayloadGroupIds(d.arg))
       ELSE c.arg = d.arg

\* the two invocations issued the same calls with the same payloads, each
\* payload with a single one-time period, and reported the same result
SameCallsAndResult ==
    /\ Len(calls) = Len(Val(prev).calls)
    /\ \A i \in 1..Len(calls) : SameCall(calls[i], Val(prev).calls[i])
    /\ result = Val(prev).result
    /\ \A i \in 1..Len(calls) :
          calls[i].op \in {"maintenance.create", "maintenance.update"} =>
             /\ Len(calls[i].arg.timeperiods) = 1
             /\ calls[i].arg.timeperiods[1].timeperiod_type = PyStr(0)

=============================================================================
